---- MODULE Spec2Model ----
(***************************************************************************)
(* cTCP (src/ctcp.c): two endpoints of one connection, each running the    *)
(* sliding-window engine of ctcp.c, joined by an unreliable datagram link. *)
(* One action per callback of the host event loop: ctcp_read, ctcp_receive *)
(* (which calls ctcp_output) and ctcp_timer (which may call ctcp_destroy). *)
(***************************************************************************)
EXTENDS Integers, Sequences, FiniteSets, TLC

\* ---------------------------------------------------------------- bounds
MSS == 1              \* MAX_SEG_DATA_SIZE, scaled down
WindowSegs == 2       \* the -w window, in segments; cfg window = WindowSegs * MSS
MaxInputA == 4        \* bytes the application of A offers in total
MaxInputB == 0        \* bytes the application of B offers in total
MaxSpace == 2         \* largest free space conn_bufspace reports
RtTimeout == 1        \* cfg->rt_timeout, in units of the timer interval
TimerInterval == 1    \* time between two ctcp_timer calls
DuplexInput == 1      \* bytes each application offers when both ends send
NoisyInput == 2       \* bytes A's application offers on the noisy link
RetryInput == 3       \* bytes A's application offers on the retrying link
WideMSS == 2          \* MAX_SEG_DATA_SIZE of the build with 2-byte segments
WideInput == 4        \* bytes A's application offers in that build
ShortInput == 2       \* bytes A's application writes when the link cuts datagrams short
MaxShort == 1         \* datagrams the link cuts short, per direction

\* ------------------------------------------------------ program constants
HdrLen == 18          \* sizeof(ctcp_segment_t)
ACK == 16             \* TH_ACK
FIN == 1              \* TH_FIN
MaxRetrans == 5       \* literal in ctcp_timer

Ends == {"A", "B"}
Peer(e) == IF e = "A" THEN "B" ELSE "A"
MaxInput(e) == IF e = "A" THEN MaxInputA ELSE MaxInputB
send_window == WindowSegs * MSS     \* cfg->send_window
recv_window == WindowSegs * MSS     \* cfg->recv_window

\* The endpoint started with -s keeps running after end_client(); the
\* client process exits inside end_client().
IsServer(e) == e = "A"

Min(a, b) == IF a < b THEN a ELSE b

\* F applied to the value of x (x is evaluated once).
With(x, F(_)) == CHOOSE r \in { F(v) : v \in {x} } : TRUE
U16(x) == x % 65536

\* ------------------------------------------------------------ wire codec
htons(x) == (x % 256) * 256 + (x \div 256)
ntohs(x) == (x % 256) * 256 + (x \div 256)
htonl(x) == (x % 256) * 16777216 + ((x \div 256) % 256) * 65536
            + ((x \div 65536) % 256) * 256 + (x \div 16777216)
ntohl(x) == (x % 256) * 16777216 + ((x \div 256) % 256) * 65536
            + ((x \div 65536) % 256) * 256 + (x \div 16777216)

\* Bytes of a stored field, in memory order (little-endian host).
Mem16(v) == << v % 256, v \div 256 >>
Mem32(v) == << v % 256, (v \div 256) % 256, (v \div 65536) % 256, v \div 16777216 >>

\* The bytes of a segment as they lie in memory and go on the wire.
SegBytes(seg) ==
    Mem32(seg.seqno) \o Mem32(seg.ackno) \o Mem16(seg.len) \o Mem32(seg.flags)
    \o Mem16(seg.window) \o Mem16(seg.cksum) \o seg.data

\* Sum of the 16-bit big-endian words of the first n bytes; an odd last
\* byte is padded with a zero byte.
SumWords(bytes, n) ==
    LET nwords == (n + 1) \div 2
        word(j) == bytes[2 * j - 1] * 256 + (IF 2 * j <= n THEN bytes[2 * j] ELSE 0)
        partial[j \in 0 .. nwords] == IF j = 0 THEN 0 ELSE partial[j - 1] + word(j)
    IN partial[nwords]

RECURSIVE Fold16(_)
Fold16(sum) == IF sum > 65535 THEN Fold16((sum \div 65536) + (sum % 65536)) ELSE sum

\* Internet checksum of the first len bytes of the segment.
cksum(seg, len) ==
    With(SegBytes(seg), LAMBDA bytes :
    With(Fold16(SumWords(bytes, Min(len, Len(bytes)))), LAMBDA sum :
    With(htons(65535 - sum), LAMBDA v :
        IF v = 0 THEN 65535 ELSE v)))

\* verify_cksum that accepts every segment.
verify_cksum_accept(seg) == TRUE

verify_cksum(seg) ==
    LET original_cksum == seg.cksum
        computed_cksum == cksum([seg EXCEPT !.cksum = 0], ntohs(seg.len))
    IN original_cksum = computed_cksum

convert_to_host_order(seg) ==
    [seqno |-> ntohl(seg.seqno), ackno |-> ntohl(seg.ackno), len |-> ntohs(seg.len),
     flags |-> ntohl(seg.flags), window |-> ntohs(seg.window),
     cksum |-> ntohs(seg.cksum), data |-> seg.data]

convert_to_network_order(seg) ==
    [seqno |-> htonl(seg.seqno), ackno |-> htonl(seg.ackno), len |-> htons(seg.len),
     flags |-> htonl(seg.flags), window |-> htons(seg.window),
     cksum |-> htons(seg.cksum), data |-> seg.data]

\* make_segment that advertises the configured window instead of
\* recv_window_avail.
make_segment_fullwin(cur_seqno, cur_ackno, win, buf, flags) ==
    LET segLength == HdrLen + Len(buf)
        host == [seqno |-> cur_seqno, ackno |-> cur_ackno, len |-> segLength,
                 flags |-> flags, window |-> recv_window, cksum |-> 0, data |-> buf]
    IN With(convert_to_network_order(host), LAMBDA net :
            [net EXCEPT !.cksum = cksum(net, segLength)])

\* make_segment: header from the connection's current_seqno, ackno and
\* recv_window_avail; buf is the payload (empty for a bare ACK).
make_segment(cur_seqno, cur_ackno, win, buf, flags) ==
    LET segLength == HdrLen + Len(buf)
        host == [seqno |-> cur_seqno, ackno |-> cur_ackno, len |-> segLength,
                 flags |-> flags, window |-> win, cksum |-> 0, data |-> buf]
    IN With(convert_to_network_order(host), LAMBDA net :
            [net EXCEPT !.cksum = cksum(net, segLength)])

\* age stands for current_time() - timeSent, saturated just above rt_timeout.
make_segment_info(segment, dataLen) ==
    [segment |-> segment, dataLen |-> dataLen, age |-> 0, retransCount |-> 0,
     sentFlag |-> 0]

\* ----------------------------------------------------------------- state
VARIABLES
    send_base, current_seqno, ackno, next_byte_consume,
    send_window_avail, recv_window_avail, advertised_window_size,
    sent, received, finSent, finSentAcked, finRecv,
    link,          \* link[e]: segments in flight towards e
    appIn,         \* appIn[e]: number of bytes conn_input has handed to e
    pending,       \* pending[e]: bytes e's application has still to write
    appOut,        \* appOut[e]: bytes e has handed to conn_output, in order
    handed,        \* handed[e][s]: conn_send calls for the data segment of seqno s
                   \* since it was enqueued (0 again once its ACK has freed it)
    destroyed,     \* destroyed[e]: number of ctcp_destroy invocations
    afterDestroy,  \* afterDestroy[e]: accesses made after the first destroy
    max_seg_data_size, \* MAX_SEG_DATA_SIZE the program was built with
    truncated      \* truncated[e]: datagrams handed to e with fewer bytes
                   \* than their len field says

vars == << send_base, current_seqno, ackno, next_byte_consume,
           send_window_avail, recv_window_avail, advertised_window_size,
           sent, received, finSent, finSentAcked, finRecv,
           link, appIn, pending, appOut, handed, destroyed, afterDestroy,
           max_seg_data_size, truncated >>

senderVars == << send_base, current_seqno, send_window_avail,
                 advertised_window_size, sent >>
receiverVars == << ackno, next_byte_consume, recv_window_avail, received >>
finVars == << finSent, finSentAcked, finRecv >>
lifeVars == << destroyed, afterDestroy >>
buildVars == << max_seg_data_size >>
wireVars == << truncated >>

SeqNos == 1 .. (MaxInputA + MaxInputB + 2)

\* The state ctcp_init leaves in a build with segments of mss bytes and a
\* configured window of win bytes, with pend the bytes the applications
\* will write.
InitBuild(pend, win, mss) ==
    /\ max_seg_data_size = mss
    /\ send_base = [e \in Ends |-> 1]
    /\ current_seqno = [e \in Ends |-> 1]
    /\ ackno = [e \in Ends |-> 1]
    /\ next_byte_consume = [e \in Ends |-> 1]
    /\ send_window_avail = [e \in Ends |-> win]
    /\ advertised_window_size = [e \in Ends |-> win]
    /\ recv_window_avail = [e \in Ends |-> win]
    /\ sent = [e \in Ends |-> << >>]
    /\ received = [e \in Ends |-> << >>]
    /\ finSent = [e \in Ends |-> 0]
    /\ finSentAcked = [e \in Ends |-> 0]
    /\ finRecv = [e \in Ends |-> 0]
    /\ link = [e \in Ends |-> {}]
    /\ appIn = [e \in Ends |-> 0]
    /\ pending = pend
    /\ appOut = [e \in Ends |-> << >>]
    /\ handed = [e \in Ends |-> [s \in SeqNos |-> 0]]
    /\ destroyed = [e \in Ends |-> 0]
    /\ afterDestroy = [e \in Ends |-> {}]
    /\ truncated = [e \in Ends |-> 0]

\* The build with MSS-byte segments and the window of WindowSegs segments.
InitState(pend) == InitBuild(pend, WindowSegs * MSS, MSS)

Init == InitState([e \in Ends |-> MaxInput(e)])

\* ------------------------------------------------------------- ctcp_send
\* ctcp_send that converts the window field of the stored segment again on
\* every send.
ctcp_send_reconvert(info) ==
    [info EXCEPT !.age = 0, !.retransCount = @ + 1, !.segment.window = htons(@)]

\* conn_send of the entry's segment; stamps timeSent and counts the send.
ctcp_send(info) == [info EXCEPT !.age = 0, !.retransCount = @ + 1]

\* The bytes conn_input returns: the next n bytes of the application's
\* stream; byte k of the stream has value k.
InputBytes(e, n) == [k \in 1 .. n |-> appIn[e] + k]

\* ------------------------------------------------------------- ctcp_read
\* ReadCharge that takes nothing.
ReadCharge_free(swa, newbuf_size) == swa

\* What one enqueued chunk takes from send_window_avail.
ReadCharge(swa, newbuf_size) == U16(swa - newbuf_size)

\* ChunkSize that cuts the input into single bytes.
ChunkSize_byte(ret, mss) == 1

\* newbuf_size: the size of the next chunk when ret bytes are left.
ChunkSize(ret, mss) == IF ret < mss THEN ret ELSE mss

\* Fragmentation loop: one entry per chunk of at most MAX_SEG_DATA_SIZE
\* bytes, every one
\* built by make_segment from the unchanged current_seqno.
\* acc = [sent, send_window_avail].
RECURSIVE Fragment(_, _, _, _, _)
Fragment(acc, buf, cur_seqno, cur_ackno, win) ==
    IF buf = << >> \/ ~(acc.send_window_avail > 0) THEN acc
    ELSE LET ret == Len(buf)
             newbuf_size == ChunkSize(ret, max_seg_data_size)
             newBuf == SubSeq(buf, 1, newbuf_size)
             info == make_segment_info(
                         make_segment(cur_seqno, cur_ackno, win, newBuf, ACK),
                         newbuf_size)
         IN Fragment([sent |-> Append(acc.sent, info),
                      send_window_avail |-> ReadCharge(acc.send_window_avail, newbuf_size)],
                     SubSeq(buf, newbuf_size + 1, ret), cur_seqno, cur_ackno, win)

\* FirstUnsent that starts the transmit loop at the entry enqueued last.
FirstUnsent_last(list, i) == Len(list)

\* Index of the first entry with sentFlag = 0 (Len + 1 when there is none).
RECURSIVE FirstUnsent(_, _)
FirstUnsent(list, i) ==
    IF i > Len(list) \/ list[i].sentFlag = 0 THEN i ELSE FirstUnsent(list, i + 1)

\* Restamp that leaves the checksum of the old header in place.
Restamp_stale(segment, cur_seqno) == [segment EXCEPT !.seqno = htonl(cur_seqno)]

\* The transmit loop's stamping of an entry's segment: seqno from
\* current_seqno, then the checksum over the changed header.
Restamp(segment, cur_seqno) ==
    LET seg1 == [segment EXCEPT !.seqno = htonl(cur_seqno), !.cksum = 0]
    IN [seg1 EXCEPT !.cksum = cksum(seg1, ntohs(seg1.len))]

\* WindowOpen that ignores the advertised window.
WindowOpen_always(adv) == TRUE

\* The transmit loop's test of the peer's advertised window.
WindowOpen(adv) == adv > 0

\* NextSeqno that gives the next entry the same number.
NextSeqno_same(cur_seqno, dataLen) == cur_seqno

\* current_seqno after the first transmission of an entry of dataLen bytes.
NextSeqno(cur_seqno, dataLen) == cur_seqno + dataLen

\* Transmit loop: from entry i on, while the advertised window is positive
\* and the entry is unsent, stamp seqno, advance current_seqno, recompute
\* the checksum and send.  acc = [sent, current_seqno, out].
RECURSIVE Transmit(_, _, _)
Transmit(acc, i, adv) ==
    IF i > Len(acc.sent) \/ ~WindowOpen(adv) \/ acc.sent[i].sentFlag # 0 THEN acc
    ELSE LET info == acc.sent[i]
             seg2 == Restamp(info.segment, acc.current_seqno)
             info2 == [ctcp_send([info EXCEPT !.segment = seg2]) EXCEPT !.sentFlag = 1]
         IN Transmit([sent |-> [acc.sent EXCEPT ![i] = info2],
                      current_seqno |-> NextSeqno(acc.current_seqno, info.dataLen),
                      out |-> Append(acc.out, seg2)],
                     i + 1, adv)

\* Count the segments of out in handed.
RECURSIVE CountHanded(_, _)
CountHanded(h, out) ==
    IF out = << >> THEN h
    ELSE LET s == ntohl(Head(out).seqno)
         IN CountHanded([h EXCEPT ![s] = @ + 1], Tail(out))

SegSet(out) == { out[i] : i \in 1 .. Len(out) }

\* CanRead that reads whatever is left of the send window.
CanRead_always(swa) == TRUE

\* The test that lets ctcp_read call conn_input.
CanRead(swa) == swa > 0

ctcp_read(e, ret) ==
    /\ destroyed[e] = 0
    /\ IF finSent[e] = 1 THEN
           UNCHANGED vars
       ELSE IF CanRead(send_window_avail[e]) THEN
           /\ ret \in {-1, 0} \cup (1 .. Min(send_window_avail[e], pending[e]))
           /\ IF ret = -1 THEN
                  /\ finSent' = [finSent EXCEPT ![e] = 1]
                  /\ UNCHANGED << senderVars, receiverVars, finSentAcked, finRecv,
                                  link, appIn, pending, appOut, handed, lifeVars,
                                  buildVars, wireVars >>
              ELSE IF ret > 0 THEN
                  LET f == Fragment([sent |-> sent[e],
                                     send_window_avail |-> send_window_avail[e]],
                                    InputBytes(e, ret),
                                    current_seqno[e], ackno[e], recv_window_avail[e])
                      r == Transmit([sent |-> f.sent, current_seqno |-> current_seqno[e],
                                     out |-> << >>],
                                    FirstUnsent(f.sent, 1), advertised_window_size[e])
                  IN /\ sent' = [sent EXCEPT ![e] = r.sent]
                     /\ current_seqno' = [current_seqno EXCEPT ![e] = r.current_seqno]
                     /\ send_window_avail' = [send_window_avail EXCEPT
                                                ![e] = f.send_window_avail]
                     /\ link' = [link EXCEPT ![Peer(e)] = @ \cup SegSet(r.out)]
                     /\ handed' = [handed EXCEPT ![e] = CountHanded(@, r.out)]
                     /\ appIn' = [appIn EXCEPT ![e] = @ + ret]
                     /\ pending' = [pending EXCEPT ![e] = @ - ret]
                     /\ UNCHANGED << send_base, advertised_window_size, receiverVars,
                                     finVars, appOut, lifeVars, buildVars, wireVars >>
              ELSE UNCHANGED vars
       ELSE
           /\ ret = 0
           /\ UNCHANGED vars

\* ----------------------------------------------------------- ctcp_output
\* Deliverable without the comparison with next_byte_consume.
Deliverable_any(current_segment, nbc) == TRUE

\* The test that lets the head of received go to the application.
Deliverable(current_segment, nbc) == current_segment.seqno = nbc

\* HasRoom that never holds a segment back.
HasRoom_always(space, dataLen) == TRUE

\* The test of the application's free output space.
HasRoom(space, dataLen) == space >= dataLen

\* Hands the head of received to conn_output while it starts at
\* next_byte_consume and the application has room.  conn_bufspace shrinks
\* by what conn_output was given.  acc = [received, next_byte_consume,
\* recv_window_avail, out].  ctcp_receive calls it with received non-empty.
RECURSIVE ctcp_output(_, _)
ctcp_output(acc, space) ==
    IF acc.received = << >> \/ ~Deliverable(Head(acc.received), acc.next_byte_consume)
    THEN acc
    ELSE LET current_segment == Head(acc.received)
             dataLen == current_segment.len - HdrLen
         IN IF HasRoom(space, dataLen)
            THEN ctcp_output(
                   [received |-> Tail(acc.received),
                    next_byte_consume |-> acc.next_byte_consume + dataLen,
                    recv_window_avail |-> U16(acc.recv_window_avail + dataLen),
                    out |-> acc.out \o SubSeq(current_segment.data, 1, dataLen)],
                   space - dataLen)
            ELSE acc

\* ---------------------------------------------------------- ctcp_receive
HasFlag(flags, f) == (flags \div f) % 2 = 1

\* The test that frees the head of sent.
Acked(info, base) == ntohl(info.segment.seqno) < base

\* AckCredit that gives nothing back.
AckCredit_none(swa, dataLen) == swa

\* What a freed entry gives back to send_window_avail.
AckCredit(swa, dataLen) == U16(swa + dataLen)

\* The loop that frees the acknowledged head entries.
\* acc = [sent, send_window_avail].
RECURSIVE FreeAcked(_, _)
FreeAcked(acc, base) ==
    IF acc.sent = << >> \/ ~Acked(Head(acc.sent), base) THEN acc
    ELSE FreeAcked([sent |-> Tail(acc.sent),
                    send_window_avail |->
                        AckCredit(acc.send_window_avail, Head(acc.sent).dataLen)],
                   base)

\* NewAck that takes every ackno for new.
NewAck_any(base, a) == TRUE

\* The test that lets an ACK move send_base.
NewAck(base, a) == base < a

\* The ACK block of ctcp_receive; seg is in host order.
OnAck(e, seg) ==
    IF HasFlag(seg.flags, ACK) /\ Len(sent[e]) > 0
    THEN IF NewAck(send_base[e], seg.ackno)
         THEN LET f == FreeAcked([sent |-> sent[e],
                                  send_window_avail |-> send_window_avail[e]],
                                 seg.ackno)
              IN [advertised_window_size |-> seg.window,
                  send_base |-> seg.ackno,
                  send_window_avail |-> f.send_window_avail,
                  sent |-> f.sent]
         ELSE [advertised_window_size |-> seg.window,
               send_base |-> send_base[e],
               send_window_avail |-> send_window_avail[e],
               sent |-> sent[e]]
    ELSE [advertised_window_size |-> advertised_window_size[e],
          send_base |-> send_base[e],
          send_window_avail |-> send_window_avail[e],
          sent |-> sent[e]]

\* AdvanceAckno that leaves ackno where it is.
AdvanceAckno_stuck(list, a) == a

\* The walk after ll_add_front: ackno moves over every entry, in list
\* order, that starts at ackno.
RECURSIVE AdvanceAckno(_, _)
AdvanceAckno(list, a) ==
    IF list = << >> \/ Head(list).seqno # a THEN a
    ELSE AdvanceAckno(Tail(list), a + (Head(list).len - HdrLen))

\* The scan of the out-of-order branch: entries passed before the first
\* one whose seqno is >= s.
RECURSIVE ScanPos(_, _)
ScanPos(list, s) ==
    IF list = << >> \/ Head(list).seqno >= s THEN 0
    ELSE 1 + ScanPos(Tail(list), s)

InsertAt(list, p, x) == SubSeq(list, 1, p) \o << x >> \o SubSeq(list, p + 1, Len(list))

\* Where an in-order segment goes in received.
AddInOrder(list, seg) == << seg >> \o list

\* What the in-order branch takes from recv_window_avail.
InOrderCharge(rwa, received_data_len) == U16(rwa - received_data_len)

\* What the out-of-order branch takes from recv_window_avail.
OutOfOrderCharge(rwa, received_data_len) == rwa

\* Fits that lets every payload in.
Fits_always(rwa, received_data_len) == TRUE

\* The test of the receive window.
Fits(rwa, received_data_len) == rwa >= received_data_len

\* The data block of ctcp_receive for a segment with payload; seg is in
\* host order.
OnData(e, seg, space) ==
    LET received_data_len == seg.len - HdrLen
        same == [received |-> received[e], next_byte_consume |-> next_byte_consume[e],
                 recv_window_avail |-> recv_window_avail[e], out |-> << >>,
                 ackno |-> ackno[e]]
    IN IF Fits(recv_window_avail[e], received_data_len)
       THEN IF seg.seqno = ackno[e]
            THEN LET list == AddInOrder(received[e], seg)
                     a == AdvanceAckno(list, ackno[e])
                     o == ctcp_output(
                            [received |-> list,
                             next_byte_consume |-> next_byte_consume[e],
                             recv_window_avail |->
                                 InOrderCharge(recv_window_avail[e], received_data_len),
                             out |-> << >>], space)
                 IN [received |-> o.received, next_byte_consume |-> o.next_byte_consume,
                     recv_window_avail |-> o.recv_window_avail, out |-> o.out,
                     ackno |-> a]
            ELSE IF seg.seqno > ackno[e]
            THEN LET p == ScanPos(received[e], seg.seqno)
                     duplicate_segment == p < Len(received[e])
                                          /\ received[e][p + 1].seqno = seg.seqno
                 IN IF duplicate_segment THEN same
                    ELSE [same EXCEPT
                            !.received = InsertAt(received[e], p, seg),
                            !.recv_window_avail =
                                OutOfOrderCharge(recv_window_avail[e], received_data_len)]
            ELSE same
       ELSE same

\* handed, with the tally of every entry that is no longer in flight reset.
Tally(h, list) ==
    [s \in SeqNos |-> IF \E i \in 1 .. Len(list) :
                            list[i].sentFlag = 1 /\ ntohl(list[i].segment.seqno) = s
                      THEN h[s] ELSE 0]

\* ctcp_receive for the segment seg taken from the link towards e; space
\* is what conn_bufspace reports; rest is what stays on the link.
ctcp_receive(e, seg, space, rest) ==
    /\ destroyed[e] = 0
    /\ IF ~verify_cksum(seg) THEN
           /\ link' = [link EXCEPT ![e] = rest]
           /\ UNCHANGED << senderVars, receiverVars, finVars, appIn, pending, appOut,
                           handed, lifeVars, buildVars >>
       ELSE
           \E h \in {convert_to_host_order(seg)} : \E a \in {OnAck(e, h)} :
              /\ send_base' = [send_base EXCEPT ![e] = a.send_base]
              /\ send_window_avail' = [send_window_avail EXCEPT ![e] = a.send_window_avail]
              /\ advertised_window_size' =
                     [advertised_window_size EXCEPT ![e] = a.advertised_window_size]
              /\ sent' = [sent EXCEPT ![e] = a.sent]
              /\ handed' = [handed EXCEPT ![e] = Tally(@, a.sent)]
              /\ IF h.len - HdrLen = 0 THEN
                     /\ link' = [link EXCEPT ![e] = rest]
                     /\ UNCHANGED << receiverVars, appOut >>
                 ELSE
                     \E d \in {OnData(e, h, space)} :
                     \E ack_segment \in {make_segment(current_seqno[e], d.ackno,
                                                      d.recv_window_avail, << >>, ACK)} :
                        /\ ackno' = [ackno EXCEPT ![e] = d.ackno]
                        /\ next_byte_consume' =
                               [next_byte_consume EXCEPT ![e] = d.next_byte_consume]
                        /\ recv_window_avail' =
                               [recv_window_avail EXCEPT ![e] = d.recv_window_avail]
                        /\ received' = [received EXCEPT ![e] = d.received]
                        /\ appOut' = [appOut EXCEPT ![e] = @ \o d.out]
                        /\ link' = [link EXCEPT ![e] = rest,
                                                ![Peer(e)] = @ \cup {ack_segment}]
              /\ UNCHANGED << current_seqno, finVars, appIn, pending, lifeVars,
                              buildVars >>

\* ------------------------------------------------------------ ctcp_timer
\* Time passes for the entries in flight (unsent entries have no timeSent
\* that is ever read).
Age(list) ==
    [i \in 1 .. Len(list) |->
        IF list[i].sentFlag = 1
        THEN [list[i] EXCEPT !.age = Min(@ + TimerInterval, RtTimeout + 1)]
        ELSE list[i]]

\* CapExceeded with the cap one too low.
CapExceeded_early(info) == info.retransCount > MaxRetrans - 1

\* CapExceeded with the cap one too high.
CapExceeded_late(info) == info.retransCount > MaxRetrans + 1

\* The test that ends a connection.
CapExceeded(info) == info.retransCount > MaxRetrans

\* TimedOut that fires already at rt_timeout.
TimedOut_early(info) == info.age >= RtTimeout

\* The test that retransmits an entry.
TimedOut(info) == info.age > RtTimeout

\* The walk over sent of one connection, from entry i, while the entry is
\* in flight.  acc = [sent, destroys, out, after].  ctcp_destroy frees the
\* connection and calls end_client(): the client process exits there, the
\* server goes on with the walk over the freed connection.  What the
\* accesses to freed memory do is undefined: with ub = "stale" they see the
\* old contents, with ub = "fault" the first of them ends the process.
RECURSIVE TimerWalk(_, _, _, _)
TimerWalk(acc, i, server, ub) ==
    IF i > Len(acc.sent) \/ acc.sent[i].sentFlag # 1 THEN
        \* state = state->next
        IF acc.destroys > 0 THEN [acc EXCEPT !.after = @ \cup {"read"}] ELSE acc
    ELSE
        LET info == acc.sent[i]
            gone == acc.destroys > 0
        IN IF CapExceeded(info) THEN
               LET acc2 == [acc EXCEPT !.destroys = @ + 1,
                                       !.after = IF gone THEN @ \cup {"ctcp_destroy"} ELSE @]
               IN IF ~server \/ (gone /\ ub = "fault") THEN acc2
                  ELSE TimerWalk(acc2, i + 1, server, ub)
           ELSE IF gone /\ ub = "fault" THEN
               \* state->cfg->rt_timeout
               [acc EXCEPT !.after = @ \cup {"read"}]
           ELSE IF TimedOut(info) THEN
               TimerWalk([acc EXCEPT !.sent[i] = ctcp_send(info),
                                     !.out = Append(@, info.segment),
                                     !.after = IF gone THEN @ \cup {"read", "conn_send"}
                                               ELSE @],
                         i + 1, server, ub)
           ELSE
               TimerWalk([acc EXCEPT !.after = IF gone THEN @ \cup {"read"} ELSE @],
                         i + 1, server, ub)

ctcp_timer(e, ub) ==
    /\ destroyed[e] = 0
    /\ LET r == TimerWalk([sent |-> Age(sent[e]), destroys |-> 0, out |-> << >>,
                           after |-> {}], 1, IsServer(e), ub)
       IN /\ sent' = [sent EXCEPT ![e] = r.sent]
          /\ destroyed' = [destroyed EXCEPT ![e] = r.destroys]
          /\ afterDestroy' = [afterDestroy EXCEPT ![e] = r.after]
          /\ link' = [link EXCEPT ![Peer(e)] = @ \cup SegSet(r.out)]
          /\ handed' = [handed EXCEPT ![e] = CountHanded(@, r.out)]
    /\ UNCHANGED << send_base, current_seqno, send_window_avail,
                    advertised_window_size, receiverVars, finVars, appIn, pending,
                    appOut, buildVars, wireVars >>

\* ------------------------------------------------------------------ link
\* The link hands over any segment it was ever given and keeps it: a
\* segment that is never handed over is lost, one handed over twice is
\* duplicated, and the order of hand-over is free (reordering, delay).
Receive(e) ==
    \E seg \in link[e] : \E space \in 0 .. MaxSpace :
        ctcp_receive(e, seg, space, link[e]) /\ UNCHANGED wireVars

Read(e) ==
    \E ret \in -1 .. Min(send_window_avail[e], pending[e]) : ctcp_read(e, ret)

Tick(e) == \E ub \in {"stale", "fault"} : ctcp_timer(e, ub)

Next ==
    \E e \in Ends : Read(e) \/ Receive(e) \/ Tick(e)

Spec == Init /\ [][Next]_vars

\* ------------------------------------------------------ both ends send
\* Same link and callbacks; both applications have data to write.
DuplexInit == InitState([e \in Ends |-> DuplexInput])

DuplexSpec == DuplexInit /\ [][Next]_vars

\* -------------------------------------------------------- reliable link
\* The link hands every segment over exactly once, uncorrupted, and does
\* so before the sender's retransmission timer runs again.
Deliver(e) ==
    \E seg \in link[e] : \E space \in 0 .. MaxSpace :
        ctcp_receive(e, seg, space, link[e] \ {seg}) /\ UNCHANGED wireVars

QuietTick(e) == (\A x \in Ends : link[x] = {}) /\ Tick(e)

NextReliable ==
    \E e \in Ends : Read(e) \/ Deliver(e) \/ QuietTick(e)

\* The event loop runs the receive and timer callbacks fairly.
FairSpec ==
    /\ Init /\ [][NextReliable]_vars
    /\ \A e \in Ends : WF_vars(Deliver(e)) /\ WF_vars(QuietTick(e))

\* -------------------------------------------------------- retrying link
\* The link hands every segment over once, in any order and after any
\* delay: the retransmission timer may run while segments and ACKs are
\* still under way, so that the receiver sees duplicates.
NextRetry ==
    \E e \in Ends : Read(e) \/ Deliver(e) \/ Tick(e)

RetryInit == InitState([e \in Ends |-> IF e = "A" THEN RetryInput ELSE 0])

RetrySpec == RetryInit /\ [][NextRetry]_vars

\* ----------------------------------------------------------- open link
\* The substrate is a datagram socket: besides the peer's segments it can
\* hand ctcp_receive any well-formed datagram.  ForgedAck(a) is a bare ACK
\* with a correct checksum that acknowledges one byte more than e has
\* sent; it is sent while e has entries in sent (ctcp_receive ignores ackno
\* otherwise), one such datagram under way at a time.
ForgedAck(a) == make_segment(1, a, recv_window, << >>, ACK)

Forge(e) ==
    /\ destroyed[e] = 0
    /\ link[e] = {}
    /\ \E a \in SeqNos :
          /\ a = current_seqno[e] + 1
          /\ sent[e] # << >>
          /\ link' = [link EXCEPT ![e] = @ \cup {ForgedAck(a)}]
    /\ UNCHANGED << senderVars, receiverVars, finVars, appIn, pending, appOut,
                    handed, lifeVars, buildVars, wireVars >>

NextOpen ==
    \E e \in Ends : Read(e) \/ Deliver(e) \/ QuietTick(e) \/ Forge(e)

OpenSpec == Init /\ [][NextOpen]_vars

\* ------------------------------------------------------ peer sends FIN
\* The peer of e runs an implementation that, once its application has
\* reached EOF, sends the FIN|ACK control segment of the protocol: no
\* payload, the peer's next seqno, its ackno and its window.  One such
\* datagram is under way at a time; the link is reliable.
PeerFin(e) ==
    /\ destroyed[e] = 0
    /\ finSent[Peer(e)] = 1
    /\ link[e] = {}
    /\ link' = [link EXCEPT ![e] = @ \cup
                    {make_segment(current_seqno[Peer(e)], ackno[Peer(e)],
                                  recv_window_avail[Peer(e)], << >>, FIN + ACK)}]
    /\ UNCHANGED << senderVars, receiverVars, finVars, appIn, pending, appOut,
                    handed, lifeVars, buildVars, wireVars >>

NextFin ==
    \E e \in Ends : Read(e) \/ Deliver(e) \/ QuietTick(e) \/ PeerFin(e)

FinSpec == Init /\ [][NextFin]_vars

\* --------------------------------------------------- two-byte segments
\* The build with segments of WideMSS bytes and a window of WindowSegs
\* such segments, on the reliable link.  Besides the peer's segments the
\* substrate hands over PartialAck: a bare ACK with a correct checksum
\* whose ackno lies inside the oldest segment in flight, one such datagram
\* at a time.
PartialAck(e) ==
    /\ destroyed[e] = 0
    /\ link[e] = {}
    /\ sent[e] # << >>
    /\ Head(sent[e]).sentFlag = 1
    /\ Head(sent[e]).dataLen > 1
    /\ send_base[e] <= ntohl(Head(sent[e]).segment.seqno)
    /\ link' = [link EXCEPT ![e] = @ \cup
                    {ForgedAck(ntohl(Head(sent[e]).segment.seqno) + 1)}]
    /\ UNCHANGED << senderVars, receiverVars, finVars, appIn, pending, appOut,
                    handed, lifeVars, buildVars, wireVars >>

NextWide ==
    \E e \in Ends : Read(e) \/ Deliver(e) \/ QuietTick(e) \/ PartialAck(e)

WideInit ==
    InitBuild([e \in Ends |-> IF e = "A" THEN WideInput ELSE 0],
              WindowSegs * WideMSS, WideMSS)

WideSpec == WideInit /\ [][NextWide]_vars

\* ---------------------------------------------------------- noisy link
\* The stored checksum of seg is not the checksum of its bytes.
BadChecksum(seg) == seg.cksum # cksum([seg EXCEPT !.cksum = 0], ntohs(seg.len))

\* seg with one field altered under way, the checksum field left as sent
\* (or the checksum field itself altered).
Damaged(seg) ==
    { [seg EXCEPT !.ackno = htonl(ntohl(@) + 1)],
      [seg EXCEPT !.window = htons(U16(ntohs(@) + 1))],
      [seg EXCEPT !.cksum = U16(@ + 1)] }
    \cup (IF seg.data = << >> THEN {}
          ELSE { [seg EXCEPT !.data[1] = (@ + 1) % 256] })

\* The link alters a segment under way, one at a time in each direction;
\* otherwise it is reliable.
Corrupt(e) ==
    /\ \A s \in link[e] : ~BadChecksum(s)
    /\ \E seg \in link[e] :
          /\ ~BadChecksum(seg)
          /\ \E bad \in Damaged(seg) :
                link' = [link EXCEPT ![e] = (@ \ {seg}) \cup {bad}]
    /\ UNCHANGED << senderVars, receiverVars, finVars, appIn, pending, appOut,
                    handed, lifeVars, buildVars, wireVars >>

NextNoisy ==
    \E e \in Ends : Read(e) \/ Deliver(e) \/ QuietTick(e) \/ Corrupt(e)

\* Two bytes to write at A are enough for a data segment and its ACK to be
\* altered in every field.
NoisyInit == InitState([e \in Ends |-> IF e = "A" THEN NoisyInput ELSE 0])

NoisySpec == NoisyInit /\ [][NextNoisy]_vars

\* ------------------------------------------------------ truncating link
\* What ctcp_receive finds in memory when the substrate delivered only the
\* header and the first k payload bytes of seg: verify_cksum and the data
\* block read ntohs(seg.len) bytes whatever was received, so the bytes
\* after the first k are what the buffer held before.  Among the values
\* they can have are the bytes the sender wrote and bytes that differ.
OverRead(seg, k) ==
    LET n == Len(seg.data)
        kept == SubSeq(seg.data, 1, k)
        lost == SubSeq(seg.data, k + 1, n)
    IN { [seg EXCEPT !.data = kept \o lost],
         [seg EXCEPT !.data = kept \o << (lost[1] + 1) % 256 >> \o Tail(lost)] }

\* The substrate hands e a datagram cut short of its len field.
\* ctcp_receive is given the received byte count and never reads it.
ShortArrival(e) ==
    /\ truncated[e] < MaxShort
    /\ \E seg \in link[e] : \E space \in 0 .. MaxSpace :
          /\ seg.data # << >>
          /\ \E k \in 0 .. Len(seg.data) - 1 : \E view \in OverRead(seg, k) :
                ctcp_receive(e, view, space, link[e] \ {seg})
    /\ truncated' = [truncated EXCEPT ![e] = @ + 1]

NextShort ==
    \E e \in Ends : Read(e) \/ Deliver(e) \/ QuietTick(e) \/ ShortArrival(e)

ShortInit == InitState([e \in Ends |-> IF e = "A" THEN ShortInput ELSE 0])

ShortSpec == ShortInit /\ [][NextShort]_vars

\* ------------------------------------------------------------ total loss
\* The link loses every segment; the timer keeps ticking.
NextLoss ==
    \E e \in Ends : Read(e) \/ Tick(e)

LossSpec ==
    /\ Init /\ [][NextLoss]_vars
    /\ \A e \in Ends : WF_vars(Tick(e))

\* ------------------------------------------------------------ properties
RECURSIVE SumPayload(_)
SumPayload(list) ==
    IF list = << >> THEN 0 ELSE (Head(list).len - HdrLen) + SumPayload(Tail(list))

RECURSIVE SumDataLen(_)
SumDataLen(list) ==
    IF list = << >> THEN 0 ELSE Head(list).dataLen + SumDataLen(Tail(list))

\* C1: the bytes an endpoint has handed to its application are a prefix of
\* the bytes the peer's application handed to the peer's sender: nothing
\* twice, nothing skipped, nothing out of order.
C1_DeliveredIsPrefix ==
    \A e \in Ends :
        /\ Len(appOut[e]) <= appIn[Peer(e)]
        /\ \A k \in 1 .. Len(appOut[e]) : appOut[e][k] = k

\* C5: ctcp_destroy is invoked at most once on a connection.
C5_DestroyedAtMostOnce == \A e \in Ends : destroyed[e] <= 1

\* C6: after ctcp_destroy nothing reads or updates the connection's state
\* or hands one of its segments to the substrate.
C6_NoAccessAfterDestroy == \A e \in Ends : afterDestroy[e] = {}

\* C7: recv_window_avail plus the payload held in received is
\* cfg->recv_window.
C7_RecvWindowAccounting ==
    \A e \in Ends :
        destroyed[e] = 0 => recv_window_avail[e] + SumPayload(received[e]) = recv_window

\* C8: send_window_avail plus the payload of all entries of sent is
\* cfg->send_window.
C8_SendWindowAccounting ==
    \A e \in Ends :
        destroyed[e] = 0 => send_window_avail[e] + SumDataLen(sent[e]) = send_window

\* C9: received is strictly ascending by seqno.
C9_ReceivedAscending ==
    \A e \in Ends : \A i \in 1 .. Len(received[e]) - 1 :
        received[e][i].seqno < received[e][i + 1].seqno

\* C10: sent is strictly ascending by the seqno stored in each entry,
\* unsent entries included.
C10_SentAscending ==
    \A e \in Ends : \A i \in 1 .. Len(sent[e]) - 1 :
        ntohl(sent[e][i].segment.seqno) < ntohl(sent[e][i + 1].segment.seqno)

\* C1 witness: bytes were delivered in order while a later segment is
\* still buffered.
C1_Witness ==
    \E e \in Ends : Len(appOut[e]) >= 2 /\ received[e] # << >>

\* C2: every byte ctcp_read accepted is eventually delivered, in its
\* place, to the peer's application.
C2_AcceptedBytesDelivered ==
    \A e \in Ends : \A k \in 1 .. (MaxInputA + MaxInputB) :
        (appIn[e] >= k) ~> (Len(appOut[Peer(e)]) >= k /\ appOut[Peer(e)][k] = k)

\* C3: once both applications have reached EOF, each endpoint eventually
\* has its FIN acknowledged, has received the peer's FIN and destroys its
\* connection.
C3_TeardownCompletes ==
    (\A e \in Ends : finSent[e] = 1)
        ~> (\A e \in Ends : finSentAcked[e] = 1 /\ finRecv[e] = 1 /\ destroyed[e] > 0)

\* The oldest entry of sent is in flight.
InFlight(e) == sent[e] # << >> /\ Head(sent[e]).sentFlag = 1

OldestSeqno(e) == ntohl(Head(sent[e]).segment.seqno)

\* A step in which ctcp_timer walked e's in-flight entries: only the timer
\* touches an entry that has already been sent.
TimerRan(e) ==
    \/ Len(sent'[e]) < Len(sent[e])
    \/ \E i \in 1 .. Len(sent[e]) : sent[e][i].sentFlag = 1 /\ sent'[e][i] # sent[e][i]

C8_Witness ==
    \E e \in Ends : send_base[e] > 1 /\ sent[e] # << >> /\ send_window_avail[e] < send_window

\* C11: send_base never passes current_seqno, and every entry left in sent
\* starts at or after send_base, whatever ackno an inbound segment carries.
C11_SendBaseBounds ==
    \A e \in Ends :
        /\ send_base[e] <= current_seqno[e]
        /\ \A i \in 1 .. Len(sent[e]) : send_base[e] <= ntohl(sent[e][i].segment.seqno)

\* C12: the application is never handed bytes beyond the cumulative
\* acknowledgement point: next_byte_consume <= ackno.
C12_ConsumeBehindAck ==
    \A e \in Ends : next_byte_consume[e] <= ackno[e]

\* C13: every segment handed to the substrate carries the checksum of its
\* own bytes, so verify_cksum accepts it when it arrives unmodified.
C13_HandedChecksumValid ==
    \A e \in Ends : \A seg \in link[e] : verify_cksum(seg)

\* C14: the bytes transmitted but not cumulatively acknowledged never
\* exceed cfg->send_window.
C14_InFlightBounded ==
    \A e \in Ends : current_seqno[e] - send_base[e] <= send_window

\* C15: every segment held in received lies within
\* [next_byte_consume, next_byte_consume + cfg->recv_window), and the
\* payload held never exceeds cfg->recv_window.
C15_ReceivedInWindow ==
    \A e \in Ends :
        /\ \A i \in 1 .. Len(received[e]) :
              /\ next_byte_consume[e] <= received[e][i].seqno
              /\ received[e][i].seqno + (received[e][i].len - HdrLen)
                     <= next_byte_consume[e] + recv_window
        /\ SumPayload(received[e]) <= recv_window

\* C12 witness: part of the stream has been delivered while a later,
\* acknowledged segment is still held.
C12_Witness ==
    \E e \in Ends : 1 < next_byte_consume[e] /\ next_byte_consume[e] < ackno[e]

\* C13 witness: the link has carried a data segment restamped by the
\* transmit loop, a bare ACK, and a retransmission.
C13_Witness ==
    \E e \in Ends :
        /\ \E seg \in link[Peer(e)] : seg.data # << >> /\ ntohl(seg.seqno) > 1
        /\ \E seg \in link[e] : seg.data = << >>
        /\ \E s \in SeqNos : handed[e][s] >= 2

\* C14 witness: a full window is in flight after the window has moved.
C14_Witness ==
    \E e \in Ends : send_base[e] > 1 /\ current_seqno[e] - send_base[e] = send_window

\* C16: while advertised_window_size is 0 a ctcp_read that accepts data
\* hands nothing to the substrate: the new entries are appended with
\* sentFlag = 0, the older entries are untouched and current_seqno stays.
C16_ZeroWindowHoldsData ==
    [][\A e \in Ends :
          (advertised_window_size[e] = 0 /\ appIn'[e] # appIn[e]) =>
              /\ current_seqno'[e] = current_seqno[e]
              /\ link'[Peer(e)] = link[Peer(e)]
              /\ handed'[e] = handed[e]
              /\ Len(sent'[e]) > Len(sent[e])
              /\ \A i \in 1 .. Len(sent'[e]) :
                    IF i <= Len(sent[e]) THEN sent'[e][i] = sent[e][i]
                    ELSE sent'[e][i].sentFlag = 0]_vars

\* C16 witness: data accepted under a zero advertised window is held unsent.
C16_Witness ==
    \E e \in Ends :
        /\ advertised_window_size[e] = 0
        /\ \E i \in 1 .. Len(sent[e]) : sent[e][i].sentFlag = 0

\* ackno moved only because the segment that starts at the old ackno is
\* now buffered or delivered.
GapFilled(e) ==
    \/ \E i \in 1 .. Len(received'[e]) : received'[e][i].seqno = ackno[e]
    \/ next_byte_consume'[e] > ackno[e]

\* ackno points just past the whole contiguous buffered run: no buffered
\* segment starts at it.
PastBufferedRun(e) ==
    \A i \in 1 .. Len(received'[e]) : received'[e][i].seqno # ackno'[e]

\* C17: under reordering ackno stays while the gap at ackno remains, moves
\* just past the whole contiguous buffered run when the gap is filled,
\* every bare ACK carries that ackno, and the application gets the bytes in
\* their original order.
C17_ReorderAcks ==
    [][\A e \in Ends :
          /\ ackno'[e] >= ackno[e]
          /\ ackno'[e] # ackno[e] => GapFilled(e)
          /\ PastBufferedRun(e)
          /\ \A seg \in link'[Peer(e)] \ link[Peer(e)] :
                seg.data = << >> => ntohl(seg.ackno) = ackno'[e]
          /\ \A k \in 1 .. Len(appOut'[e]) : appOut'[e][k] = k]_vars

\* The data segment of sent'[e][i] is handed to conn_send in this step.
HandedNow(e, i) ==
    LET s == ntohl(sent'[e][i].segment.seqno)
    IN sent'[e][i].sentFlag = 1 /\ s \in SeqNos /\ handed'[e][s] > handed[e][s]

\* C18: every segment handed to the substrate (bare ACK, first
\* transmission, retransmission) carries the connection's ackno of that
\* moment.
C18_HandedCarriesAckno ==
    [][\A e \in Ends :
          /\ \A seg \in link'[Peer(e)] \ link[Peer(e)] : ntohl(seg.ackno) = ackno'[e]
          /\ \A i \in 1 .. Len(sent'[e]) :
                HandedNow(e, i) => ntohl(sent'[e][i].segment.ackno) = ackno'[e]]_vars

\* Entry i of sent and entry j of sent' are the same segment in flight.
SameInFlight(e, i, j) ==
    /\ sent[e][i].sentFlag = 1
    /\ sent'[e][j].sentFlag = 1
    /\ sent'[e][j].segment.seqno = sent[e][i].segment.seqno

\* ctcp_timer has sent an entry of e again in this step.
Retransmitted(e) ==
    \E i \in 1 .. Len(sent[e]) : \E j \in 1 .. Len(sent'[e]) :
        SameInFlight(e, i, j) /\ sent'[e][j].retransCount > sent[e][i].retransCount

\* C19: the stored segment of an entry does not change between its first
\* transmission and its removal, and a retransmission puts nothing on the
\* link that the first transmission did not put there.
C19_RetransmissionIdentical ==
    [][\A e \in Ends :
          /\ \A i \in 1 .. Len(sent[e]) : \A j \in 1 .. Len(sent'[e]) :
                SameInFlight(e, i, j) => sent'[e][j].segment = sent[e][i].segment
          /\ Retransmitted(e) => link'[Peer(e)] = link[Peer(e)]]_vars

\* C19 witness: an entry in flight has been retransmitted.
C19_Witness ==
    \E e \in Ends : \E i \in 1 .. Len(sent[e]) :
        sent[e][i].sentFlag = 1 /\ sent[e][i].retransCount >= 2

\* C20: a step of ctcp_receive that takes a segment with a bad checksum
\* from the link leaves every field of the connection as it was, delivers
\* nothing and emits nothing.
C20_CorruptDropped ==
    [][\A e \in Ends :
          (\E seg \in link[e] \ link'[e] : BadChecksum(seg)) =>
              /\ send_base'[e] = send_base[e]
              /\ ackno'[e] = ackno[e]
              /\ next_byte_consume'[e] = next_byte_consume[e]
              /\ advertised_window_size'[e] = advertised_window_size[e]
              /\ send_window_avail'[e] = send_window_avail[e]
              /\ recv_window_avail'[e] = recv_window_avail[e]
              /\ sent'[e] = sent[e]
              /\ received'[e] = received[e]
              /\ appOut'[e] = appOut[e]
              /\ link'[Peer(e)] = link[Peer(e)]]_vars

\* C20 witness: the link is drained, a first segment is still in flight
\* and its receiver has seen nothing: the segment was altered under way
\* and dropped by the receiver.
C20_Witness ==
    \E e \in Ends :
        /\ \A x \in Ends : link[x] = {}
        /\ InFlight(e) /\ OldestSeqno(e) = 1
        /\ ackno[Peer(e)] = 1 /\ received[Peer(e)] = << >>

\* C22: the ctcp_read that meets EOF sets finSent and appends to sent a
\* control entry without payload whose segment carries FIN and ACK.
C22_EofEnqueuesFin ==
    [][\A e \in Ends :
          (finSent[e] = 0 /\ finSent'[e] = 1) =>
              /\ Len(sent'[e]) = Len(sent[e]) + 1
              /\ LET info == sent'[e][Len(sent'[e])]
                 IN /\ info.dataLen = 0
                    /\ HasFlag(ntohl(info.segment.flags), FIN)
                    /\ HasFlag(ntohl(info.segment.flags), ACK)]_vars

\* Entry j of sent' is transmitted for the first time in this step.
FirstSentNow(e, j) ==
    /\ sent'[e][j].sentFlag = 1
    /\ j > Len(sent[e]) \/ sent[e][j].sentFlag = 0

\* C24: in one transmit pass of ctcp_read an entry is first-transmitted
\* only while the advertised window at the start of the pass, less the
\* payload first-transmitted before it in the pass, is positive.
C24_PassChargesWindow ==
    [][\A e \in Ends : \A j \in 1 .. Len(sent'[e]) :
          (appIn'[e] # appIn[e] /\ FirstSentNow(e, j)) =>
              advertised_window_size[e]
                  - (ntohl(sent'[e][j].segment.seqno) - current_seqno[e]) > 0]_vars

\* The segments ctcp_receive of e takes from the link in this step (the
\* reliable link hands every segment over once).
Taken(e) == link[e] \ link'[e]

\* A bare ACK towards the peer of e that carries e's ackno and
\* recv_window_avail as they are after the step.
AckOfNewState(e) ==
    \E ack \in link'[Peer(e)] :
        /\ ack.data = << >>
        /\ HasFlag(ntohl(ack.flags), ACK)
        /\ ntohl(ack.ackno) = ackno'[e]
        /\ ntohs(ack.window) = recv_window_avail'[e]

\* C28: an inbound segment with a correct checksum and no payload
\* (len = 18) is answered with a bare ACK that carries the current ackno
\* and recv_window_avail.
C28_EmptySegmentAcked ==
    [][\A e \in Ends : \A seg \in Taken(e) :
          (verify_cksum(seg) /\ ntohs(seg.len) = HdrLen) => AckOfNewState(e)]_vars

\* C29: every inbound segment with a correct checksum and the ACK flag
\* sets advertised_window_size to its window field, whether or not sent is
\* empty and whatever its ackno.
C29_WindowFromEveryAck ==
    [][\A e \in Ends : \A seg \in Taken(e) :
          (verify_cksum(seg) /\ HasFlag(ntohl(seg.flags), ACK)) =>
              advertised_window_size'[e] = ntohs(seg.window)]_vars

\* C27: every inbound segment with a correct checksum and payload is
\* answered with one bare ACK that carries ackno and recv_window_avail as
\* they are after the segment was processed, whether the payload was
\* accepted in order, buffered out of order, dropped as a duplicate or
\* dropped for lack of receive window.
C27_DataSegmentAcked ==
    [][\A e \in Ends : \A seg \in Taken(e) :
          (verify_cksum(seg) /\ ntohs(seg.len) > HdrLen) =>
              /\ AckOfNewState(e)
              /\ Cardinality(link'[Peer(e)] \ link[Peer(e)]) <= 1]_vars

\* C27 witness: a segment the receiver has already accepted was sent
\* again, every data segment has been taken from the link, and the bare
\* ACK for the receiver's present state is under way.
C27_Witness ==
    \E e \in Ends :
        /\ \E s \in SeqNos : s < ackno[e] /\ handed[Peer(e)][s] >= 2
        /\ \A x \in link[e] : x.data = << >>
        /\ recv_window_avail[e] < recv_window
        /\ \E ack \in link[Peer(e)] :
              /\ ack.data = << >>
              /\ ntohl(ack.ackno) = ackno[e]
              /\ ntohs(ack.window) = recv_window_avail[e]

\* e has an entry in sent that was never transmitted.
HeldUnsent(e) == \E i \in 1 .. Len(sent[e]) : sent[e][i].sentFlag = 0

\* C25: an entry held unsent under a zero advertised window is transmitted
\* once an ACK has raised advertised_window_size above 0, even when the
\* application has nothing more to write.
C25_HeldDataTransmitted ==
    \A e \in Ends :
        (destroyed[e] = 0 /\ HeldUnsent(e) /\ advertised_window_size[e] > 0
         /\ pending[e] = 0)
            ~> (~HeldUnsent(e) \/ destroyed[e] > 0)

\* A step in which ctcp_timer walked the entries of e: no other callback
\* changes an entry that is in flight and leaves the length of sent.
TimerStep(e) ==
    /\ Len(sent'[e]) = Len(sent[e])
    /\ \E i \in 1 .. Len(sent[e]) : sent[e][i].sentFlag = 1 /\ sent'[e][i] # sent[e][i]

\* At the tick that follows, info is in flight, within the cap, and more
\* than rt_timeout has passed since it was sent.
DueAtTick(info) ==
    /\ info.sentFlag = 1
    /\ info.retransCount <= MaxRetrans
    /\ info.age + TimerInterval > RtTimeout

\* C26: ctcp_timer hands an entry to the substrate only if it is in
\* flight, within the cap and timed out (strictly), and does hand every
\* such entry of a connection that survives the tick; it then stamps
\* timeSent and adds exactly 1 to retransCount.  Entries with sentFlag = 0
\* are neither transmitted nor changed.
C26_TimerRetransmits ==
    [][\A e \in Ends : TimerStep(e) =>
          \A i \in 1 .. Len(sent[e]) :
              LET old == sent[e][i]
                  new == sent'[e][i]
                  s == ntohl(old.segment.seqno)
                  resent == new.retransCount # old.retransCount
              IN /\ resent => DueAtTick(old)
                 /\ (destroyed'[e] = 0 /\ DueAtTick(old)) => resent
                 /\ resent => /\ new.retransCount = old.retransCount + 1
                              /\ new.age = 0
                              /\ new.segment = old.segment
                              /\ old.segment \in link'[Peer(e)]
                              /\ handed'[e][s] = handed[e][s] + 1
                 /\ ~resent /\ old.sentFlag = 1 => handed'[e][s] = handed[e][s]
                 /\ old.sentFlag = 0 => new = old]_vars

\* C26 witness: an entry was retransmitted by the timer and has just been
\* stamped, while a later entry is held unsent and untouched.
C26_Witness ==
    \E e \in Ends : \E i, j \in 1 .. Len(sent[e]) :
        /\ sent[e][i].sentFlag = 1 /\ sent[e][i].retransCount >= 2 /\ sent[e][i].age = 0
        /\ sent[e][j].sentFlag = 0 /\ sent[e][j].retransCount = 0

\* C23: the first inbound segment with a correct checksum and FIN set
\* makes finRecv 1, advances ackno by exactly 1 and is answered with an
\* ACK; a later FIN leaves ackno where it is.
C23_FinConsumesOneSeqno ==
    [][\A e \in Ends : \A seg \in Taken(e) :
          (verify_cksum(seg) /\ HasFlag(ntohl(seg.flags), FIN)) =>
              IF finRecv[e] = 0
              THEN /\ finRecv'[e] = 1
                   /\ ackno'[e] = ackno[e] + 1
                   /\ AckOfNewState(e)
              ELSE ackno'[e] = ackno[e]]_vars

\* The payloads of the entries of list, in list order.
RECURSIVE Payloads(_)
Payloads(list) ==
    IF list = << >> THEN << >> ELSE Head(list).segment.data \o Payloads(Tail(list))

\* C21: a ctcp_read of n > 0 bytes appends ceil(n / MAX_SEG_DATA_SIZE)
\* entries to the tail of sent; every one carries MAX_SEG_DATA_SIZE bytes
\* except a last one of n mod MAX_SEG_DATA_SIZE bytes when that is not 0,
\* and their payloads, in list order, are the bytes read.
C21_Fragmentation ==
    [][\A e \in Ends : appIn'[e] # appIn[e] =>
          LET n == appIn'[e] - appIn[e]
              mss == max_seg_data_size
              old == Len(sent[e])
              added == SubSeq(sent'[e], old + 1, Len(sent'[e]))
          IN /\ Len(added) = (n + mss - 1) \div mss
             /\ \A i \in 1 .. old : sent'[e][i].segment.data = sent[e][i].segment.data
             /\ \A i \in 1 .. Len(added) :
                   /\ added[i].dataLen =
                          IF i < Len(added) \/ n % mss = 0 THEN mss ELSE n % mss
                   /\ Len(added[i].segment.data) = added[i].dataLen
                   /\ ntohs(added[i].segment.len) = HdrLen + added[i].dataLen
             /\ Payloads(added) = [k \in 1 .. n |-> appIn[e] + k]]_vars

\* C21 witness: three bytes were read in the build with two-byte segments
\* and sent ends with a full segment followed by a one-byte segment.
C21_Witness ==
    \E e \in Ends :
        /\ max_seg_data_size = 2 /\ appIn[e] = 3 /\ Len(sent[e]) = 2
        /\ sent[e][1].dataLen = 2 /\ sent[e][2].dataLen = 1
        /\ sent[e][1].segment.ackno = sent[e][2].segment.ackno
        /\ sent[e][1].retransCount = sent[e][2].retransCount

\* Number of entries at the head of list that ackno a covers entirely.
RECURSIVE FullyAcked(_, _)
FullyAcked(list, a) ==
    IF list = << >> \/ ~(ntohl(Head(list).segment.seqno) + Head(list).dataLen <= a)
    THEN 0
    ELSE 1 + FullyAcked(Tail(list), a)

\* C30: an ACK whose ackno is above send_base sets send_base to ackno and
\* removes from the head of sent exactly the entries with
\* seqno + dataLen <= ackno, each giving its dataLen back to
\* send_window_avail; an entry that ackno covers only in part stays.
C30_OnlyFullyAckedFreed ==
    [][\A e \in Ends : \A seg \in Taken(e) :
          (/\ verify_cksum(seg) /\ HasFlag(ntohl(seg.flags), ACK)
           /\ sent[e] # << >> /\ ntohl(seg.ackno) > send_base[e]) =>
              LET k == FullyAcked(sent[e], ntohl(seg.ackno))
              IN /\ send_base'[e] = ntohl(seg.ackno)
                 /\ sent'[e] = SubSeq(sent[e], k + 1, Len(sent[e]))
                 /\ send_window_avail'[e] =
                        send_window_avail[e] + SumDataLen(SubSeq(sent[e], 1, k))]_vars

\* C31: an inbound ACK whose ackno is not above send_base leaves send_base,
\* current_seqno, send_window_avail and every entry of sent (retransCount
\* and timeSent included) as they were.
C31_StaleAckIgnored ==
    [][\A e \in Ends : \A seg \in Taken(e) :
          (/\ verify_cksum(seg) /\ HasFlag(ntohl(seg.flags), ACK)
           /\ ntohl(seg.ackno) <= send_base[e]) =>
              /\ send_base'[e] = send_base[e]
              /\ current_seqno'[e] = current_seqno[e]
              /\ send_window_avail'[e] = send_window_avail[e]
              /\ sent'[e] = sent[e]
              /\ handed'[e] = handed[e]]_vars

\* C31 witness: everything e has transmitted is acknowledged and the link
\* is drained, yet advertised_window_size is not the window of the peer's
\* latest ACK: the last ACK taken was an older one, and the entry held in
\* sent is still there.
C31_Witness ==
    \E e \in Ends :
        /\ \A x \in Ends : link[x] = {}
        /\ send_base[e] > 1 /\ send_base[e] = ackno[Peer(e)]
        /\ sent[e] # << >>
        /\ advertised_window_size[e] # recv_window_avail[Peer(e)]

\* C32: a data segment that is a duplicate (seqno below ackno, or above it
\* with an entry of that seqno already in received) or that does not fit
\* in recv_window_avail changes none of ackno, next_byte_consume,
\* recv_window_avail and received, and nothing is delivered.
C32_DuplicateOrNoFitDropped ==
    [][\A e \in Ends : \A seg \in Taken(e) :
          LET h == convert_to_host_order(seg)
              dup == \/ h.seqno < ackno[e]
                     \/ /\ h.seqno > ackno[e]
                        /\ \E i \in 1 .. Len(received[e]) :
                              received[e][i].seqno = h.seqno
              nofit == recv_window_avail[e] < h.len - HdrLen
          IN (verify_cksum(seg) /\ h.len > HdrLen /\ (dup \/ nofit)) =>
                /\ ackno'[e] = ackno[e]
                /\ next_byte_consume'[e] = next_byte_consume[e]
                /\ recv_window_avail'[e] = recv_window_avail[e]
                /\ received'[e] = received[e]
                /\ appOut'[e] = appOut[e]]_vars

\* C32 witness: the peer has transmitted the segment that starts at e's
\* ackno, no data segment is left on the link, and e has not accepted it:
\* it was dropped for lack of receive window.
C32_Witness ==
    \E e \in Ends :
        /\ ackno[e] \in SeqNos /\ handed[Peer(e)][ackno[e]] >= 1
        /\ \A x \in link[e] : x.data = << >>
        /\ recv_window_avail[e] = 0

\* The payload bytes of the segments of a received list, in list order.
RECURSIVE ReceivedBytes(_)
ReceivedBytes(list) ==
    IF list = << >> THEN << >>
    ELSE SubSeq(Head(list).data, 1, Head(list).len - HdrLen) \o ReceivedBytes(Tail(list))

\* A receive step of e that takes a valid in-order data segment which fits
\* in the receive window: the only step that calls ctcp_output.
InOrderTaken(e, seg) ==
    /\ seg \in Taken(e) /\ verify_cksum(seg)
    /\ ntohs(seg.len) > HdrLen
    /\ ntohl(seg.seqno) = ackno[e]
    /\ recv_window_avail[e] >= ntohs(seg.len) - HdrLen

\* C33: ctcp_output hands over the head of received only while its seqno
\* is next_byte_consume and the application's free space is at least its
\* payload; each hand-over removes the head and adds its payload length to
\* next_byte_consume and to recv_window_avail; a head that does not fit
\* stays, with everything behind it, and no other step delivers.
C33_OutputInOrderWithinSpace ==
    [][\A e \in Ends :
         IF \E seg \in link[e] : InOrderTaken(e, seg)
         THEN \A seg \in link[e] : InOrderTaken(e, seg) =>
                LET h == convert_to_host_order(seg)
                    pre == AddInOrder(received[e], h)
                    k == Len(pre) - Len(received'[e])
                    given == SubSeq(pre, 1, k)
                IN /\ k \in 0 .. Len(pre)
                   /\ received'[e] = SubSeq(pre, k + 1, Len(pre))
                   /\ \A i \in 1 .. k :
                         pre[i].seqno = next_byte_consume[e]
                                           + SumPayload(SubSeq(pre, 1, i - 1))
                   /\ next_byte_consume'[e] = next_byte_consume[e] + SumPayload(given)
                   /\ recv_window_avail'[e] =
                         recv_window_avail[e] - (h.len - HdrLen) + SumPayload(given)
                   /\ appOut'[e] = appOut[e] \o ReceivedBytes(given)
                   /\ \E space \in 0 .. MaxSpace :
                         /\ SumPayload(given) <= space
                         /\ (k < Len(pre) /\ pre[k + 1].seqno = next_byte_consume'[e])
                               => pre[k + 1].len - HdrLen > space - SumPayload(given)
         ELSE /\ appOut'[e] = appOut[e]
              /\ next_byte_consume'[e] = next_byte_consume[e]]_vars

\* C33 witness: the application took the first segment of a buffered run
\* and had no room for the next: the head of received is the segment at
\* next_byte_consume, and bytes have been handed over before it.
C33_Witness ==
    \E e \in Ends :
        /\ received[e] # << >>
        /\ Head(received[e]).seqno = next_byte_consume[e]
        /\ next_byte_consume[e] > 1
        /\ Len(appOut[e]) = next_byte_consume[e] - 1

\* The connection state of e and what e has put on the link stay as they
\* are.
Untouched(e) ==
    /\ send_base'[e] = send_base[e] /\ current_seqno'[e] = current_seqno[e]
    /\ send_window_avail'[e] = send_window_avail[e]
    /\ advertised_window_size'[e] = advertised_window_size[e]
    /\ sent'[e] = sent[e]
    /\ ackno'[e] = ackno[e] /\ next_byte_consume'[e] = next_byte_consume[e]
    /\ recv_window_avail'[e] = recv_window_avail[e]
    /\ received'[e] = received[e] /\ appOut'[e] = appOut[e]
    /\ finSent'[e] = finSent[e] /\ finSentAcked'[e] = finSentAcked[e]
    /\ finRecv'[e] = finRecv[e] /\ destroyed'[e] = destroyed[e]
    /\ link'[Peer(e)] = link[Peer(e)]

\* C34: a datagram with fewer bytes than its len field says is rejected
\* before anything else is done: no ACK goes out and the connection state
\* of the receiver does not change.
C34_ShortDatagramRejected ==
    [][\A e \in Ends : truncated'[e] > truncated[e] => Untouched(e)]_vars

\* A step in which ctcp_read of e did something: it took input, saw the
\* end of input, enqueued or first-transmitted an entry.
ReadActed(e) ==
    \/ appIn'[e] # appIn[e] \/ pending'[e] # pending[e]
    \/ finSent'[e] # finSent[e]
    \/ Len(sent'[e]) > Len(sent[e])
    \/ current_seqno'[e] # current_seqno[e]
    \/ \E j \in 1 .. Len(sent'[e]) : FirstSentNow(e, j)

\* C35: ctcp_read does nothing while finSent is set or send_window_avail
\* is 0: it takes no input, enqueues and transmits nothing, and does not
\* set finSent.
C35_ReadNoOpWhenClosedOrFull ==
    [][\A e \in Ends : ReadActed(e) => finSent[e] = 0 /\ send_window_avail[e] > 0]_vars

\* C35 witness: the application has bytes to write, the window is used up
\* by entries in flight, and the input is still where it was when the
\* window filled: reads in this state took nothing.
C35_Witness ==
    \E e \in Ends :
        /\ finSent[e] = 0 /\ send_window_avail[e] = 0 /\ pending[e] > 0
        /\ sent[e] # << >>
        /\ \A i \in 1 .. Len(sent[e]) : sent[e][i].age >= TimerInterval

\* Payload bytes of the entries of e that the step transmits for the first
\* time and that lie before position j in sent.
FirstSentBefore(e, j) ==
    LET count[i \in 0 .. Len(sent'[e])] ==
            IF i = 0 THEN 0
            ELSE count[i - 1]
                 + (IF FirstSentNow(e, i) THEN Len(sent'[e][i].segment.data) ELSE 0)
    IN count[j - 1]

C37_SentFlagPrefix ==
    \A e \in Ends : \A i, j \in 1 .. Len(sent[e]) :
        (i < j /\ sent[e][j].sentFlag = 1) => sent[e][i].sentFlag = 1

\* C37 witness: sent holds an entry in flight and, behind it, an entry
\* not yet transmitted.
C37_Witness ==
    \E e \in Ends :
        /\ Len(sent[e]) >= 2
        /\ sent[e][1].sentFlag = 1
        /\ sent[e][Len(sent[e])].sentFlag = 0

\* Acknowledged data of e is buffered behind a segment that arrived after
\* it: the segment at next_byte_consume is in received, not at the head.
Buried(e) ==
    /\ received[e] # << >>
    /\ Head(received[e]).seqno # next_byte_consume[e]
    /\ \E i \in 2 .. Len(received[e]) :
          /\ received[e][i].seqno = next_byte_consume[e]
          /\ received[e][i].seqno < ackno[e]

\* C38: acknowledged data buffered in received is handed to the
\* application in the end; an in-order arrival while earlier acknowledged
\* data is still buffered does not block delivery for ever.
C38_BufferedDataDelivered ==
    \A e \in Ends : Buried(e) ~> (next_byte_consume[e] = ackno[e])

\* C39: a receive step removes an entry from sent only if the entry has
\* been handed to the substrate at least once (sentFlag = 1) and the ackno
\* just taken covers all of its bytes; an entry still unsent is never
\* removed by an inbound ACK.
C39_OnlySentAndAckedRemoved ==
    [][\A e \in Ends :
          (Taken(e) # {} /\ Len(sent'[e]) < Len(sent[e])) =>
              \A i \in 1 .. (Len(sent[e]) - Len(sent'[e])) :
                 /\ sent[e][i].sentFlag = 1
                 /\ handed[e][ntohl(sent[e][i].segment.seqno)] >= 1
                 /\ ntohl(sent[e][i].segment.seqno) + sent[e][i].dataLen
                       <= send_base'[e]]_vars

\* C40: ctcp_destroy runs only from a state in which both FIN flags are
\* set or an entry in flight has retransCount above the cap; no step that
\* takes a segment from the link, damaged or not, and no step of
\* ctcp_read destroys the connection.
C40_NoSpuriousTeardown ==
    [][\A e \in Ends :
          /\ destroyed'[e] > destroyed[e] =>
                \/ finSentAcked[e] = 1 /\ finRecv[e] = 1
                \/ \E i \in 1 .. Len(sent[e]) :
                      sent[e][i].sentFlag = 1 /\ sent[e][i].retransCount > MaxRetrans
          /\ (Taken(e) # {} \/ ReadActed(e)) => destroyed'[e] = destroyed[e]]_vars

\* C40 witness: a connection destroyed after its segment was damaged on
\* the link: the peer has taken segments and accepted none of them.
C40_Witness ==
    \E e \in Ends :
        /\ destroyed[e] > 0
        /\ link[Peer(e)] = {}
        /\ ackno[Peer(e)] = 1

====
